---- MODULE Spec2Model ----
(***************************************************************************)
(* Process-management syscalls of the kernel (os/src/syscall/process.rs):  *)
(* exit, yield, getpid, fork, exec, waitpid, spawn, mmap, munmap and       *)
(* set_priority.  The task control block, the scheduler, the loader and    *)
(* the address-space operations the syscalls call live outside process.rs  *)
(* and follow the design document.                                         *)
(***************************************************************************)
EXTENDS Integers, Sequences, FiniteSets, TLC

\* ------------------------------------------------------------------ bounds
MaxTasks == 3
MaxExit == 2
MaxLen == 5
MaxPort == 9
MaxAreas == 2
MaxA0 == 1
MaxPrio == 3
NumFrames == 4
MaxUs == 5
MaxMs == 4
MaxCount == 3
MaxSpaces == 2

\* ------------------------------------------------------- program constants
\* usize arithmetic is modulo WordMod (scaled down from 2^64)
WordMod == 16
\* config::PAGE_SIZE (scaled down from 4096)
PAGE_SIZE == 4
\* PortFlag bits
PortR == 1
PortW == 2
PortX == 4
\* MapPermission bits
MapR == 2
MapW == 4
MapX == 8
MapU == 16
\* the priority a task is created with
DefaultPrio == 16
\* microseconds in a second (scaled down from 1_000_000)
MICRO == 3

Pids == 0..(MaxTasks - 1)
NoPid == -1
Addrs == 0..(WordMod - 1)
Apps == {"a", "b"}
Names == Apps \cup {"none"}
PidArgs == (-2)..MaxTasks
PtrArgs == {0, PAGE_SIZE}
ExitArgs == 1..MaxExit
StartArgs == {a \in Addrs : a % PAGE_SIZE = 0} \cup {PAGE_SIZE + 1}
LenArgs == 0..MaxLen
PortArgs == {0, PortR, PortR + PortW + PortX} \cup 9..MaxPort
A0Args == 0..MaxA0
PrioArgs == (-1)..MaxPrio
\* user pointers: in page 0, at the start of page 1, at the last word of page 1
TsArgs == {0, PAGE_SIZE, 2 * PAGE_SIZE - 1}
\* what the timer and the task's counters read
UsArgs == {MaxUs}
MsArgs == {MaxMs}
CountArgs == {MaxCount}
SbrkArgs == {-(PAGE_SIZE - 1), PAGE_SIZE - 1}

\* status[p]      task_status of the task with pid p ("Unused": no such task)
\* children[p]    its children, in the order of the children vector
\* parent[p]      its parent, NoPid when it has none
\* exit_code[p]   its exit code
\* x10[p]         x[10] of the trap context the task was created with or
\*                given by exec: what it observes when control first returns
\* prio[p]        its priority
\* memory_set[p]  the areas of its address space
\* umem[p]        the contents of its user memory, by virtual address
\* ready          the task manager's ready tasks
\* current        the processor's current task, NoPid when idle
\* panicked       the kernel has panicked
\* last           the last syscall and its outcome
\* heap[p]        its heap: the bottom and the top (the program break)
\* stray          the words the last get_time or task_info wrote to physical
\*                memory that backs no page of its caller
\* exclusive      the interiors (UPSafeCell) exclusively borrowed, and whether
\*                one was asked for while it was borrowed
VARIABLES status, children, parent, exit_code, x10, prio, memory_set, umem,
          ready, current, panicked, last, heap, stray, exclusive

vars == <<status, children, parent, exit_code, x10, prio, memory_set, umem,
          ready, current, panicked, last, heap, stray, exclusive>>

\* ----------------------------------------------------------------- helpers
RECURSIVE BitAnd(_, _)
BitAnd(a, b) ==
    IF a = 0 \/ b = 0 THEN 0
    ELSE (a % 2) * (b % 2) + 2 * BitAnd(a \div 2, b \div 2)

RECURSIVE BitOr(_, _)
BitOr(a, b) ==
    IF a = 0 THEN b
    ELSE IF b = 0 THEN a
    ELSE (IF a % 2 = 1 \/ b % 2 = 1 THEN 1 ELSE 0) + 2 * BitOr(a \div 2, b \div 2)

BitNot(a) == WordMod - 1 - a

Min(S) == CHOOSE x \in S : \A y \in S : x <= y

RemoveAt(s, i) == SubSeq(s, 1, i - 1) \o SubSeq(s, i + 1, Len(s))

Range(s) == {s[i] : i \in 1..Len(s)}

\* `pid as usize`
AsUsize(n) == n % WordMod

\* ------------------------------------------------------------ address space
\* an area maps the virtual pages l .. r-1 with permission bits perm
Pages(a) == a.l..(a.r - 1)

MappedPages(ms) == UNION {Pages(a) : a \in ms}

\* VirtAddr::aligned
aligned(va) == va % PAGE_SIZE = 0

\* VirtAddr::floor, VirtAddr::ceil
floor(va) == va \div PAGE_SIZE
ceil(va) == (va + PAGE_SIZE - 1) \div PAGE_SIZE

\* the loader: the address space an image is built into
ImageAreas(name) ==
    IF name = "a" THEN {[l |-> 1, r |-> 2, perm |-> BitOr(BitOr(MapR, MapX), MapU)]}
    ELSE {[l |-> 1, r |-> 3, perm |-> BitOr(BitOr(MapR, MapW), MapU)]}

get_app_data_by_name(name) == name \in Apps

\* page-table translation of a user pointer
Translates(ms, ptr) == floor(ptr) \in MappedPages(ms)

ZeroMem == [a \in Addrs |-> 0]

\* the loader: the heap of a new image is empty and starts after its last page
ImageHeap(name) ==
    LET top == PAGE_SIZE * (CHOOSE r \in {a.r : a \in ImageAreas(name)} :
                              \A a \in ImageAreas(name) : a.r <= r)
    IN  [bottom |-> top, top |-> top]

NoHeap == [bottom |-> 0, top |-> 0]

\* ------------------------------------------------------- exclusive access
\* inner_exclusive_access() of the task t, and the drop of what it returned
acq(t) == [op |-> "acq", t |-> t]
rel(t) == [op |-> "rel", t |-> t]

\* UPSafeCell: the borrows ev made in order, starting from ex
RECURSIVE borrow(_, _)
borrow(ex, ev) ==
    IF ev = <<>> THEN ex
    ELSE borrow(IF Head(ev).op = "acq"
                THEN [held |-> ex.held \cup {Head(ev).t},
                      err |-> ex.err \/ Head(ev).t \in ex.held]
                ELSE [held |-> ex.held \ {Head(ev).t}, err |-> ex.err],
                Tail(ev))

\* current_user_token(): the caller's interior is borrowed for the read
current_user_token(t) == <<acq(t), rel(t)>>

\* ------------------------------------------------------------------- state
Init ==
    /\ status = [p \in Pids |-> IF p = 0 THEN "Running" ELSE "Unused"]
    /\ children = [p \in Pids |-> <<>>]
    /\ parent = [p \in Pids |-> NoPid]
    /\ exit_code = [p \in Pids |-> 0]
    /\ x10 = [p \in Pids |-> 0]
    /\ prio = [p \in Pids |-> DefaultPrio]
    /\ memory_set = [p \in Pids |-> IF p = 0 THEN ImageAreas("a") ELSE {}]
    /\ umem = [p \in Pids |-> ZeroMem]
    /\ ready = {}
    /\ current = 0
    /\ panicked = FALSE
    /\ last = [op |-> "init", task |-> NoPid, ret |-> 0, done |-> TRUE, at |-> 0]
    /\ heap = [p \in Pids |-> IF p = 0 THEN ImageHeap("a") ELSE NoHeap]
    /\ stray = 0
    /\ exclusive = [held |-> {}, err |-> FALSE]

\* a syscall runs on behalf of the current task; a borrow of a borrowed
\* interior panics
InSyscall == current # NoPid /\ ~panicked /\ ~exclusive.err

\* what the last syscall was: its caller, the value it returned and the line
\* of process.rs it left at (done = FALSE: control did not return to the caller)
Returned(op, t, r, at) == [op |-> op, task |-> t, ret |-> r, done |-> TRUE, at |-> at]
NotReturned(op, t, at) == [op |-> op, task |-> t, ret |-> 0, done |-> FALSE, at |-> at]

\* ---------------------------------------------------------------- scheduler
\* add_task: the task becomes eligible for selection
add_task(rdy, t) == rdy \cup {t}

\* run_next: dispatch one eligible task (the stride order is left open), or
\* idle when there is none
run_next(st, rdy) ==
    IF rdy = {}
    THEN /\ status' = st
         /\ ready' = {}
         /\ current' = NoPid
    ELSE \E n \in rdy :
         /\ status' = [st EXCEPT ![n] = "Running"]
         /\ ready' = rdy \ {n}
         /\ current' = n

\* ------------------------------------------------------------ sys_exit
\* the borrows sys_exit holds when it calls exit_current_and_run_next
exit_borrows(t) == <<>>

\* an exit that leaves the caller eligible for selection
sys_exit_requeued(code) ==
    /\ InSyscall
    /\ exit_code' = [exit_code EXCEPT ![current] = code]
    /\ run_next([status EXCEPT ![current] = "Zombie"], add_task(ready, current))
    /\ last' = NotReturned("exit", current, 56)
    /\ exclusive' = borrow(exclusive, exit_borrows(current))
    /\ UNCHANGED <<children, parent, x10, prio, memory_set, umem, panicked,
                   heap, stray>>

\* exit_current_and_run_next(exit_code)
sys_exit(code) ==
    /\ InSyscall
    /\ exit_code' = [exit_code EXCEPT ![current] = code]
    /\ run_next([status EXCEPT ![current] = "Zombie"], ready)
    /\ last' = NotReturned("exit", current, 56)
    /\ exclusive' = borrow(exclusive, exit_borrows(current))
    /\ UNCHANGED <<children, parent, x10, prio, memory_set, umem, panicked,
                   heap, stray>>

\* ------------------------------------------------------------ sys_yield
\* the borrows sys_yield holds when it calls suspend_current_and_run_next
yield_borrows(t) == <<>>

\* a yield that dispatches the next task and leaves the caller Running
sys_yield_keeps_running ==
    /\ InSyscall
    /\ run_next(status, add_task(ready, current))
    /\ last' = Returned("yield", current, 0, 64)
    /\ exclusive' = borrow(exclusive, yield_borrows(current))
    /\ UNCHANGED <<children, parent, exit_code, x10, prio, memory_set, umem,
                   panicked, heap, stray>>

\* suspend_current_and_run_next(), then 0
sys_yield ==
    /\ InSyscall
    /\ run_next([status EXCEPT ![current] = "Ready"], add_task(ready, current))
    /\ last' = Returned("yield", current, 0, 64)
    /\ exclusive' = borrow(exclusive, yield_borrows(current))
    /\ UNCHANGED <<children, parent, exit_code, x10, prio, memory_set, umem,
                   panicked, heap, stray>>

\* ------------------------------------------------------------ sys_getpid
sys_getpid ==
    /\ InSyscall
    /\ last' = Returned("getpid", current, current, 69)
    /\ UNCHANGED <<status, children, parent, exit_code, x10, prio, memory_set,
                   umem, ready, current, panicked, heap, stray, exclusive>>

\* ------------------------------------------------------------ sys_fork
\* the pid allocator hands out a pid no live task holds
FreePids == {p \in Pids : status[p] = "Unused"}

\* a fork that leaves the copied register as it is
fork_child_a0_copied(copied) == copied

\* trap_cx.x[10] = 0 on the new task, whose trap context is a copy of the
\* caller's
fork_child_a0(copied) == 0

\* new_pid as isize
fork_ret(new_pid) == new_pid

\* new_task.inner_exclusive_access().get_trap_cx(): a borrow that ends with
\* the statement
fork_borrows(new) == <<acq(new), rel(new)>>

sys_fork(a0) ==
    /\ InSyscall
    /\ \E new \in FreePids :
        \* current_task.fork(): a copy of the caller, linked as its child
        /\ memory_set' = [memory_set EXCEPT ![new] = memory_set[current]]
        /\ umem' = [umem EXCEPT ![new] = umem[current]]
        /\ parent' = [parent EXCEPT ![new] = current]
        /\ children' = [children EXCEPT ![current] = Append(@, new)]
        /\ exit_code' = [exit_code EXCEPT ![new] = 0]
        /\ x10' = [x10 EXCEPT ![new] = fork_child_a0(a0)]
        /\ prio' = [prio EXCEPT ![new] = DefaultPrio]
        /\ status' = [status EXCEPT ![new] = "Ready"]
        /\ ready' = add_task(ready, new)
        /\ heap' = [heap EXCEPT ![new] = heap[current]]
        /\ exclusive' = borrow(exclusive, fork_borrows(new))
        /\ last' = Returned("fork", current, fork_ret(new), 80)
    /\ UNCHANGED <<current, panicked, stray>>

\* ------------------------------------------------------------ sys_exec
\* an exec that reports success whatever the lookup gave
exec_ret_zero(found) == 0

\* Some(data) => 0, None => -1
exec_ret(found) == IF found THEN 0 ELSE -1

sys_exec(path) ==
    /\ InSyscall
    /\ IF get_app_data_by_name(path)
       THEN \* task.exec(data): a new address space and trap context
            /\ memory_set' = [memory_set EXCEPT ![current] = ImageAreas(path)]
            /\ umem' = [umem EXCEPT ![current] = ZeroMem]
            /\ x10' = [x10 EXCEPT ![current] = 0]
            /\ heap' = [heap EXCEPT ![current] = ImageHeap(path)]
       ELSE UNCHANGED <<memory_set, umem, x10, heap>>
    /\ last' = Returned("exec", current, exec_ret(get_app_data_by_name(path)),
                        IF get_app_data_by_name(path) THEN 90 ELSE 92)
    /\ exclusive' = borrow(exclusive, current_user_token(current))
    /\ UNCHANGED <<status, children, parent, exit_code, prio, ready, current,
                   panicked, stray>>

\* ------------------------------------------------------------ sys_spawn
\* a spawn that does not look at the lookup's result
spawn_creates_always(path) == TRUE

\* whether sys_spawn creates a task for the name
spawn_creates(path) == get_app_data_by_name(path)

sys_spawn(path) ==
    /\ InSyscall
    /\ IF spawn_creates(path)
       THEN \E new \in FreePids :
            \* current_task.spawn(data): a new task built from the image,
            \* linked as a child of the caller
            /\ memory_set' = [memory_set EXCEPT ![new] = ImageAreas(path)]
            /\ umem' = [umem EXCEPT ![new] = ZeroMem]
            /\ parent' = [parent EXCEPT ![new] = current]
            /\ children' = [children EXCEPT ![current] = Append(@, new)]
            /\ exit_code' = [exit_code EXCEPT ![new] = 0]
            /\ status' = [status EXCEPT ![new] = "Ready"]
            /\ ready' = add_task(ready, new)
            /\ x10' = [x10 EXCEPT ![new] = 0]
            /\ prio' = [prio EXCEPT ![new] = DefaultPrio]
            /\ heap' = [heap EXCEPT ![new] = ImageHeap(path)]
            /\ last' = Returned("spawn", current, new, 239)
       ELSE /\ last' = Returned("spawn", current, -1, 241)
            /\ UNCHANGED <<memory_set, umem, parent, children, exit_code,
                           x10, prio, status, ready, heap>>
    /\ exclusive' = borrow(exclusive, current_user_token(current))
    /\ UNCHANGED <<current, panicked, stray>>

\* ------------------------------------------------------------ sys_waitpid
\* pid == -1 || pid as usize == p.getpid()
matches(pid, p) == pid = -1 \/ AsUsize(pid) = p

\* a filter that only looks for a child, whatever its pid
any_match_unfiltered(ch, pid) == Len(ch) > 0

\* inner.children.iter().any(..)
any_match(ch, pid) == \E i \in 1..Len(ch) : matches(pid, ch[i])

is_zombie(p) == status[p] = "Zombie"

\* a search that prefers the lowest pid to the first position
find_zombie_lowest_pid(ch, pid) ==
    LET hits == {i \in 1..Len(ch) : is_zombie(ch[i]) /\ matches(pid, ch[i])}
    IN  IF hits = {} THEN 0
        ELSE CHOOSE i \in hits : \A j \in hits : ch[i] <= ch[j]

\* a search that forgets to ask whether the child is a zombie
find_zombie_unchecked(ch, pid) ==
    LET hits == {i \in 1..Len(ch) : matches(pid, ch[i])}
    IN  IF hits = {} THEN 0 ELSE Min(hits)

\* inner.children.iter().enumerate().find(..): the index of the first child
\* that is a zombie and matches, 0 when there is none
find_zombie(ch, pid) ==
    LET hits == {i \in 1..Len(ch) : is_zombie(ch[i]) /\ matches(pid, ch[i])}
    IN  IF hits = {} THEN 0 ELSE Min(hits)

\* an exit code taken from the wrong field
child_exit_code_pid(child) == child

\* child.inner_exclusive_access().exit_code
child_exit_code(child) == exit_code[child]

\* Arc::strong_count of a task: the children lists, the ready set and the
\* processor's current task hold the strong references
strong_count(chn, c) ==
    Cardinality({p \in Pids : c \in Range(chn[p])})
    + (IF c \in ready THEN 1 ELSE 0) + (IF c = current THEN 1 ELSE 0)

\* the tasks destroyed when the last reference to c is dropped: c and, through
\* its children list, every zombie below it
RECURSIVE Dropped(_)
Dropped(c) ==
    {c} \cup UNION {Dropped(g) : g \in {h \in Range(children[c]) : is_zombie(h)}}

\* children.remove(idx), found
waitpid_reap(t, idx, ptr) ==
    LET child == children[t][idx]
        rest == [children EXCEPT ![t] = RemoveAt(@, idx)]
        gone == Dropped(child)
    IN  IF strong_count(rest, child) # 0 \/ ~Translates(memory_set[t], ptr)
        THEN \* assert_eq! fails, or the pointer has no translation
             /\ children' = rest
             /\ panicked' = TRUE
             /\ last' = NotReturned("waitpid", t,
                                      IF strong_count(rest, child) # 0 THEN 118 ELSE 121)
             /\ UNCHANGED <<status, parent, exit_code, x10, prio, memory_set,
                            umem, heap>>
        ELSE /\ umem' = [p \in Pids |->
                           IF p \in gone THEN ZeroMem
                           ELSE IF p = t THEN [umem[t] EXCEPT ![ptr] = child_exit_code(child)]
                           ELSE umem[p]]
             /\ children' = [p \in Pids |-> IF p \in gone THEN <<>> ELSE rest[p]]
             /\ status' = [p \in Pids |-> IF p \in gone THEN "Unused" ELSE status[p]]
             /\ parent' = [p \in Pids |->
                             IF p \in gone \/ parent[p] \in gone THEN NoPid
                             ELSE parent[p]]
             /\ exit_code' = [p \in Pids |-> IF p \in gone THEN 0 ELSE exit_code[p]]
             /\ memory_set' = [p \in Pids |-> IF p \in gone THEN {} ELSE memory_set[p]]
             /\ x10' = [p \in Pids |-> IF p \in gone THEN 0 ELSE x10[p]]
             /\ prio' = [p \in Pids |-> IF p \in gone THEN DefaultPrio ELSE prio[p]]
             /\ heap' = [p \in Pids |-> IF p \in gone THEN NoHeap ELSE heap[p]]
             /\ panicked' = FALSE
             /\ last' = Returned("waitpid", t, child, 122)

\* borrows of a sys_waitpid whose return of -2 would keep the caller's interior
waitpid_borrows_leaked(t, ch, pid, at) ==
    LET idx == find_zombie(ch, pid)
        seen == IF idx = 0 THEN Len(ch) ELSE idx
        look(i) == <<acq(ch[i]), rel(ch[i])>>
        RECURSIVE search(_)
        search(i) == IF i > seen THEN <<>> ELSE look(i) \o search(i + 1)
    IN  <<acq(t)>>
        \o (IF at = 111 THEN <<>> ELSE search(1))
        \o (IF at \in {121, 122} THEN look(idx) ELSE <<>>)
        \o (IF at \in {111, 122} THEN <<rel(t)>> ELSE <<>>)

\* the borrows of sys_waitpid up to the line it leaves at: the caller's
\* interior from line 105 on, each child the search of line 114 looks at (up
\* to the one it stops at), the found child again at line 120; a return ends
\* the caller's borrow, a panic does not
waitpid_borrows(t, ch, pid, at) ==
    LET idx == find_zombie(ch, pid)
        seen == IF idx = 0 THEN Len(ch) ELSE idx
        look(i) == <<acq(ch[i]), rel(ch[i])>>
        RECURSIVE search(_)
        search(i) == IF i > seen THEN <<>> ELSE look(i) \o search(i + 1)
    IN  <<acq(t)>>
        \o (IF at = 111 THEN <<>> ELSE search(1))
        \o (IF at \in {121, 122} THEN look(idx) ELSE <<>>)
        \o (IF at \in {111, 122, 124} THEN <<rel(t)>> ELSE <<>>)

sys_waitpid(pid, ptr) ==
    /\ InSyscall
    /\ IF ~any_match(children[current], pid)
       THEN /\ last' = Returned("waitpid", current, -1, 111)
            /\ UNCHANGED <<status, children, parent, exit_code, x10, prio,
                           memory_set, umem, panicked, heap>>
       ELSE IF find_zombie(children[current], pid) # 0
       THEN waitpid_reap(current, find_zombie(children[current], pid), ptr)
       ELSE /\ last' = Returned("waitpid", current, -2, 124)
            /\ UNCHANGED <<status, children, parent, exit_code, x10, prio,
                           memory_set, umem, panicked, heap>>
    /\ exclusive' = borrow(exclusive,
                           waitpid_borrows(current, children[current], pid, last'.at))
    /\ UNCHANGED <<ready, current, stray>>

\* ------------------------------------------------------------ sys_mmap
\* PortFlag::from_bits_truncate
PortFlag(port) == BitAnd(port, BitOr(BitOr(PortR, PortW), PortX))

\* a conversion that forgets the shift between the two bit layouts
MapPermission_unshifted(bits) ==
    BitOr(BitAnd(bits % 256, BitOr(BitOr(BitOr(MapR, MapW), MapX), MapU)), MapU)

\* MapPermission::from_bits_truncate((port.bits << 1) as u8) | MapPermission::U
MapPermission(bits) ==
    BitOr(BitAnd((bits * 2) % 256, BitOr(BitOr(BitOr(MapR, MapW), MapX), MapU)), MapU)

\* an end rounded down instead of up
end_vpn_floor(start, len) == floor((start + len) % WordMod)

\* VirtAddr::from(start + len).ceil(): the page after the last requested one
end_vpn(start, len) == ceil((start + len) % WordMod)

\* a check that only rejects the empty pattern
bad_port_empty_only(port) == BitAnd(port, 7) = 0

\* port & !0b111 != 0 || port & 0b111 == 0
bad_port(port) == BitAnd(port, BitNot(7)) # 0 \/ BitAnd(port, 7) = 0

\* VPNRange::new(l, r): the pages l .. r-1
VPNRange(l, r) == l..(r - 1)

\* MemorySet::find_area_include_range: an area sharing a page with the range
find_area_include_range(ms, l, r) == {a \in ms : Pages(a) \cap VPNRange(l, r) # {}}

\* MemorySet::insert_framed_area
insert_framed_area(ms, l, r, perm) == ms \cup {[l |-> l, r |-> r, perm |-> perm]}

\* an mmap that does not look for the areas in its way
mmap_site_unchecked(ms, start, len, port) ==
    IF ~aligned(start) THEN 183
    ELSE IF bad_port(port) THEN 187
    ELSE 202

\* the line sys_mmap returns at
mmap_site(ms, start, len, port) ==
    IF ~aligned(start) THEN 183
    ELSE IF bad_port(port) THEN 187
    ELSE IF find_area_include_range(ms, floor(start), end_vpn(start, len)) # {} THEN 197
    ELSE 202

\* the value sys_mmap returns
mmap_ret(ms, start, len, port) == IF mmap_site(ms, start, len, port) = 202 THEN 0 ELSE -1

\* the caller's interior is borrowed at line 191 and until the return
mmap_borrows(t, at) == IF at \in {197, 202} THEN <<acq(t), rel(t)>> ELSE <<>>

sys_mmap(start, len, port) ==
    /\ InSyscall
    /\ IF mmap_ret(memory_set[current], start, len, port) = 0
       THEN /\ Cardinality(memory_set[current]) < MaxAreas
            /\ memory_set' = [memory_set EXCEPT ![current] =
                   insert_framed_area(@, floor(start), end_vpn(start, len),
                                      MapPermission(PortFlag(port)))]
       ELSE UNCHANGED memory_set
    /\ last' = Returned("mmap", current, mmap_ret(memory_set[current], start, len, port),
                        mmap_site(memory_set[current], start, len, port))
    /\ exclusive' = borrow(exclusive, mmap_borrows(current, last'.at))
    /\ UNCHANGED <<status, children, parent, exit_code, x10, prio, umem,
                   ready, current, panicked, heap, stray>>

\* ------------------------------------------------------------ sys_munmap
\* MemorySet::unmap_area_include_range: the areas lying inside the range, when
\* they make up the range exactly
unmap_hit(ms, l, r) ==
    LET inside == {a \in ms : l <= a.l /\ a.l <= a.r /\ a.r <= r}
    IN  IF inside # {} /\ UNION {Pages(a) : a \in inside} = VPNRange(l, r)
        THEN inside ELSE {}

\* a munmap that does not look at the alignment of start
munmap_site_unchecked(start) == 214

\* the line sys_munmap returns at
munmap_site(start) == IF ~aligned(start) THEN 209 ELSE 214

\* the value sys_munmap returns
munmap_ret(ms, start, len) ==
    IF munmap_site(start) = 209 THEN -1
    ELSE IF unmap_hit(ms, floor(start), end_vpn(start, len)) = {} THEN -1
    ELSE 0

\* the caller's interior is borrowed at line 213 and until the return
munmap_borrows(t, at) == IF at = 214 THEN <<acq(t), rel(t)>> ELSE <<>>

sys_munmap(start, len) ==
    /\ InSyscall
    /\ IF munmap_ret(memory_set[current], start, len) = 0
       THEN LET hit == unmap_hit(memory_set[current], floor(start), end_vpn(start, len))
                rest == memory_set[current] \ hit
            IN  /\ memory_set' = [memory_set EXCEPT ![current] = rest]
                /\ umem' = [umem EXCEPT ![current] =
                       [a \in Addrs |-> IF floor(a) \in MappedPages(rest)
                                        THEN umem[current][a] ELSE 0]]
       ELSE UNCHANGED <<memory_set, umem>>
    /\ last' = Returned("munmap", current, munmap_ret(memory_set[current], start, len),
                        munmap_site(start))
    /\ exclusive' = borrow(exclusive, munmap_borrows(current, last'.at))
    /\ UNCHANGED <<status, children, parent, exit_code, x10, prio, ready,
                   current, panicked, heap, stray>>

\* ------------------------------------------------------------ sys_set_priority
\* a check that lets the weight 1 through
prio_rejected_below_one(p) == p < 1

\* prio < 2
prio_rejected(p) == p < 2

\* the value sys_set_priority returns
set_priority_ret(p) == IF prio_rejected(p) THEN -1 ELSE p

\* the caller's interior is borrowed at line 255 and until the return
set_priority_borrows(t, at) == IF at = 257 THEN <<acq(t), rel(t)>> ELSE <<>>

sys_set_priority(p) ==
    /\ InSyscall
    /\ prio' = IF prio_rejected(p) THEN prio
               ELSE [prio EXCEPT ![current] = AsUsize(p)]
    /\ last' = Returned("set_priority", current, set_priority_ret(p),
                        IF prio_rejected(p) THEN 252 ELSE 257)
    /\ exclusive' = borrow(exclusive, set_priority_borrows(current, last'.at))
    /\ UNCHANGED <<status, children, parent, exit_code, x10, memory_set, umem,
                   ready, current, panicked, heap, stray>>

\* ------------------------------------------------------------ sys_sbrk
\* the area of a heap: the pages from its bottom to its top, rounded up
HeapArea(h) ==
    [l |-> floor(h.bottom), r |-> ceil(h.top), perm |-> BitOr(BitOr(MapR, MapW), MapU)]

\* TaskControlBlock::change_program_brk: the address space and the heap after
\* the break moved by size. It cannot be satisfied below the bottom of the
\* heap, when the heap's area is no longer mapped, or when a page to add is
\* mapped already
change_program_brk(ms, h, size) ==
    LET new == [bottom |-> h.bottom, top |-> h.top + size]
        others == ms \ {HeapArea(h)}
        added == VPNRange(ceil(h.top), ceil(new.top))
        grown == IF Pages(HeapArea(new)) = {} THEN others
                 ELSE others \cup {HeapArea(new)}
    IN  IF \/ new.top < h.bottom
           \/ Pages(HeapArea(h)) # {} /\ HeapArea(h) \notin ms
           \/ added \cap MappedPages(ms) # {}
        THEN [ok |-> FALSE, ms |-> ms, heap |-> h]
        ELSE [ok |-> TRUE, ms |-> grown, heap |-> new]

\* Some(old_brk) => old_brk as isize, None => -1
sbrk_ret(h, ok) == IF ok THEN h.top ELSE -1

sys_sbrk(size) ==
    /\ InSyscall
    /\ heap[current].top + size < WordMod
    /\ LET got == change_program_brk(memory_set[current], heap[current], size)
       IN  /\ memory_set' = [memory_set EXCEPT ![current] = got.ms]
           /\ heap' = [heap EXCEPT ![current] = got.heap]
           /\ umem' = [umem EXCEPT ![current] =
                  [a \in Addrs |-> IF floor(a) \in MappedPages(got.ms)
                                   THEN umem[current][a] ELSE 0]]
           /\ last' = Returned("sbrk", current, sbrk_ret(heap[current], got.ok),
                               IF got.ok THEN 223 ELSE 225)
    /\ UNCHANGED <<status, children, parent, exit_code, x10, prio, ready,
                   current, panicked, stray, exclusive>>

\* ------------------------------------------------------------ page table
\* the frames of physical memory that back user pages
Frames == 0..(NumFrames - 1)

\* the page tables an address space can have: which frame backs each mapped
\* page is the frame allocator's choice, two pages never share a frame
PageTables(ms) ==
    {pt \in [MappedPages(ms) -> Frames] :
        \A v, w \in MappedPages(ms) : pt[v] = pt[w] => v = w}

\* no physical address: the page is not mapped
NoAddr == -1

\* the physical address of a mapped virtual address: its frame and its offset
PhysAddr(pt, va) == pt[floor(va)] * PAGE_SIZE + (va % PAGE_SIZE)

\* VirtAddr::find_phys_addr_user_space: the physical address of one virtual
\* address
find_phys_addr_user_space(ms, pt, va) ==
    IF floor(va) \in MappedPages(ms) THEN PhysAddr(pt, va) ELSE NoAddr

\* *(pa as *mut T) = words: the words go to physical memory from pa on.
\* The user memory of the task whose page table is pt, after the write
write_phys(mem, pt, pa, words) ==
    [a \in Addrs |->
       IF /\ floor(a) \in DOMAIN pt
          /\ PhysAddr(pt, a) \in pa..(pa + Len(words) - 1)
       THEN words[PhysAddr(pt, a) - pa + 1]
       ELSE mem[a]]

\* the words of that write that land in no frame of pt
write_stray(pt, pa, words) ==
    Cardinality({q \in pa..(pa + Len(words) - 1) :
                   q \div PAGE_SIZE \notin {pt[v] : v \in DOMAIN pt}})

\* ------------------------------------------------------------ sys_get_time
\* TimeVal { sec: us / 1_000_000, usec: us % 1_000_000 }
TimeVal(us) == <<us \div MICRO, us % MICRO>>

\* the translation reads the caller's token
get_time_borrows(t) == current_user_token(t)

sys_get_time(ts, us, pt) ==
    /\ InSyscall
    /\ pt \in PageTables(memory_set[current])
    /\ LET phyaddr == find_phys_addr_user_space(memory_set[current], pt, ts)
       IN  IF phyaddr = NoAddr
           THEN /\ last' = Returned("get_time", current, -1, 136)
                /\ stray' = 0
                /\ UNCHANGED umem
           ELSE /\ umem' = [umem EXCEPT ![current] =
                                write_phys(@, pt, phyaddr, TimeVal(us))]
                /\ stray' = write_stray(pt, phyaddr, TimeVal(us))
                /\ last' = Returned("get_time", current, 0, 144)
    /\ exclusive' = borrow(exclusive, get_time_borrows(current))
    /\ UNCHANGED <<status, children, parent, exit_code, x10, prio, memory_set,
                   ready, current, panicked, heap>>

\* ------------------------------------------------------------ sys_task_info
\* TaskStatus as the word written to user memory
TaskStatus(s) ==
    CASE s = "Ready" -> 1 [] s = "Running" -> 2 [] s = "Zombie" -> 3 [] OTHER -> 0

\* TaskInfo { status, syscall_times, time }
TaskInfo(st, times, time) == <<TaskStatus(st), times, time>>

\* borrows of a sys_task_info that would translate the user pointer with the
\* caller's interior held
task_info_borrows_nested(t) == <<acq(t)>> \o current_user_token(t) \o <<rel(t)>>

\* the translation of line 157, then the caller's interior from line 159 to
\* the drop of line 165
task_info_borrows(t) == current_user_token(t) \o <<acq(t), rel(t)>>

sys_task_info(ti, times, time, pt) ==
    /\ InSyscall
    /\ pt \in PageTables(memory_set[current])
    /\ LET phys_addr == find_phys_addr_user_space(memory_set[current], pt, ti)
           task_info == TaskInfo(status[current], times, time)
       IN  IF phys_addr = NoAddr
           THEN /\ last' = Returned("task_info", current, -1, 168)
                /\ stray' = 0
                /\ UNCHANGED umem
           ELSE /\ umem' = [umem EXCEPT ![current] =
                                write_phys(@, pt, phys_addr, task_info)]
                /\ stray' = write_stray(pt, phys_addr, task_info)
                /\ last' = Returned("task_info", current, 0, 173)
    /\ exclusive' = borrow(exclusive, task_info_borrows(current))
    /\ UNCHANGED <<status, children, parent, exit_code, x10, prio, memory_set,
                   ready, current, panicked, heap>>

\* ------------------------------------------------------------------- specs
Exit == \E code \in ExitArgs : sys_exit(code)
Yield == sys_yield
Getpid == sys_getpid
Fork == \E a0 \in A0Args : sys_fork(a0)
Exec == \E path \in Names : sys_exec(path)
Spawn == \E path \in Names : sys_spawn(path)
Waitpid == \E pid \in PidArgs, ptr \in PtrArgs : sys_waitpid(pid, ptr)
SetPriority == \E p \in PrioArgs : sys_set_priority(p)
Mmap == \E start \in StartArgs, len \in LenArgs, port \in PortArgs :
            sys_mmap(start, len, port)
Munmap == \E start \in StartArgs, len \in LenArgs : sys_munmap(start, len)
Sbrk == \E size \in SbrkArgs : sys_sbrk(size)
GetTime == \E ts \in TsArgs, us \in UsArgs :
               InSyscall /\ \E pt \in PageTables(memory_set[current]) :
                               sys_get_time(ts, us, pt)
TaskInfoCall == \E ti \in TsArgs, times \in CountArgs, time \in MsArgs :
                    InSyscall /\ \E pt \in PageTables(memory_set[current]) :
                                    sys_task_info(ti, times, time, pt)

\* the life cycle of tasks: creation, exit, scheduling and reaping
NextWait == Fork \/ Spawn \/ Exit \/ Yield \/ Waitpid

SpecWait == Init /\ [][NextWait]_vars

\* creation and image replacement
NextImage == Fork \/ Exec \/ Spawn \/ SetPriority \/ Getpid \/ Yield \/ Exit

SpecImage == Init /\ [][NextImage]_vars

\* the memory mappings of one task
NextMem == Mmap \/ Munmap

SpecMem == Init /\ [][NextMem]_vars

\* the time and the task information written to user memory of a task that
\* maps and unmaps the page after its image
MmapPage == sys_mmap(2 * PAGE_SIZE, PAGE_SIZE, PortR + PortW)

MunmapPage == \E start \in {PAGE_SIZE, 2 * PAGE_SIZE} : sys_munmap(start, PAGE_SIZE)

NextTime == MmapPage \/ MunmapPage \/ GetTime \/ TaskInfoCall

SpecTime == Init /\ [][NextTime]_vars

\* the address spaces of up to MaxSpaces tasks: their creation, their regions
\* (of a length that is rounded up to one page) and their heaps
SpaceLens == {PAGE_SIZE - 1}

MmapRegion == \E start \in StartArgs, len \in SpaceLens :
                  sys_mmap(start, len, PortR + PortW)

MunmapRegion == \E start \in StartArgs, len \in SpaceLens : sys_munmap(start, len)

ForkSpace == Cardinality({p \in Pids : status[p] # "Unused"}) < MaxSpaces /\ Fork

SpawnSpace == Cardinality({p \in Pids : status[p] # "Unused"}) < MaxSpaces /\ Spawn

NextSpace ==
    MmapRegion \/ MunmapRegion \/ Sbrk \/ ForkSpace \/ Exec \/ SpawnSpace \/ Yield

SpecSpace == Init /\ [][NextSpace]_vars

\* the exclusive access each syscall takes to the interior of tasks: every
\* syscall of up to MaxSpaces tasks, on its failing and its successful paths
ExitBorrow == sys_exit(1)

ExecBorrow == \E path \in {"a", "none"} : sys_exec(path)

SpawnBorrow ==
    /\ Cardinality({p \in Pids : status[p] # "Unused"}) < MaxSpaces
    /\ \E path \in {"a", "none"} : sys_spawn(path)

SetPriorityBorrow == \E p \in {1, 2} : sys_set_priority(p)

MmapBorrow == \E start \in {PAGE_SIZE + 1, 2 * PAGE_SIZE}, port \in {0, PortR + PortW} :
                  sys_mmap(start, PAGE_SIZE, port)

MunmapBorrow == \E start \in {PAGE_SIZE + 1, 2 * PAGE_SIZE} : sys_munmap(start, PAGE_SIZE)

SbrkBorrow == sys_sbrk(-1)

GetTimeBorrow == \E ts \in {0, PAGE_SIZE} :
                     InSyscall /\ \E pt \in PageTables(memory_set[current]) :
                                     sys_get_time(ts, MaxUs, pt)

TaskInfoBorrow == \E ti \in {0, PAGE_SIZE} :
                      InSyscall /\ \E pt \in PageTables(memory_set[current]) :
                                      sys_task_info(ti, MaxCount, MaxMs, pt)

NextBorrow ==
    \/ ForkSpace \/ SpawnBorrow \/ ExecBorrow \/ ExitBorrow \/ Yield \/ Getpid
    \/ Waitpid \/ SetPriorityBorrow \/ MmapBorrow \/ MunmapBorrow \/ SbrkBorrow
    \/ GetTimeBorrow \/ TaskInfoBorrow

SpecBorrow == Init /\ [][NextBorrow]_vars

Next == NextWait \/ NextImage \/ NextMem \/ NextTime \/ NextSpace \/ NextBorrow

Spec == Init /\ [][Next]_vars

\* ------------------------------------------------------------------ claims
\* what the claims say of a state, stated without the operators of the model
Live == {p \in Pids : status[p] # "Unused"}
ChildSet(t) == {children[t][i] : i \in 1..Len(children[t])}
\* the children of t the filter pid selects
Selected(t, pid) == {c \in ChildSet(t) : pid = -1 \/ pid = c}
\* the pointer lies in a page mapped in the address space of t
PtrMapped(t, ptr) ==
    \E a \in memory_set[t] : a.l * PAGE_SIZE <= ptr /\ ptr < a.r * PAGE_SIZE

\* C1: sys_waitpid returns -1 exactly when no child of the caller matches the
\* filter, and -2 exactly when a child matches but no matching child is a
\* Zombie; in both cases the children list, every task's status and user
\* memory are unchanged.
C1_WaitpidErrors ==
    [][last'.op = "waitpid" => \A pid \in PidArgs, ptr \in PtrArgs :
          sys_waitpid(pid, ptr) =>
            LET m == Selected(current, pid)
                z == {c \in m : status[c] = "Zombie"}
            IN  /\ (last'.done /\ last'.ret = -1) <=> (m = {})
                /\ (last'.done /\ last'.ret = -2) <=> (m # {} /\ z = {})
                /\ z = {} => /\ children' = children
                             /\ status' = status
                             /\ umem' = umem]_vars

\* waitpid answered -2 although a child of the caller is a Zombie: the filter
\* selected only children that are still running
C1_Witness ==
    /\ last.op = "waitpid" /\ last.done /\ last.ret = -2
    /\ \E c \in ChildSet(last.task) : status[c] = "Zombie"

C3_TwoChildren ==
    [][/\ last'.op = "exit" =>
            \A code \in ExitArgs :
              sys_exit(code) => /\ status'[current] = "Zombie"
                                /\ exit_code'[current] = code
       /\ \A c \in Pids :
            (status[c] = "Zombie" /\ status'[c] = "Zombie") =>
              exit_code'[c] = exit_code[c]
       /\ last'.op = "waitpid" =>
            \A ptr \in PtrArgs :
              (sys_waitpid(-1, ptr) /\ PtrMapped(current, ptr)) =>
                LET ch == children[current]
                    zs == {c \in ChildSet(current) : status[c] = "Zombie"}
                IN  /\ (Len(ch) = 2 /\ zs = {}) => (last'.done /\ last'.ret = -2)
                    /\ (Len(ch) = 2 /\ Cardinality(zs) = 1) =>
                          \A c \in zs :
                            /\ last'.done /\ last'.ret = c
                            /\ umem'[current][ptr] = exit_code[c]
                            /\ Len(children'[current]) = 1
                            /\ children'[current][1] \in ChildSet(current) \ {c}
                    /\ (Len(ch) <= 2 /\ zs # {}) =>
                          /\ last'.done /\ last'.ret \in zs
                          /\ Len(children'[current]) = Len(ch) - 1
                    /\ Len(ch) = 0 => (last'.done /\ last'.ret = -1)]_vars

\* one of two children exited with code MaxExit: waitpid returned its pid,
\* delivered the code, and the other child, still running, is left
C3_Witness ==
    /\ last.op = "waitpid" /\ last.done /\ last.ret >= 0
    /\ Len(children[last.task]) = 1
    /\ status[children[last.task][1]] \in {"Ready", "Running"}
    /\ umem[last.task][PAGE_SIZE] = MaxExit

\* C4: sys_fork creates exactly one new task with a pid no existing task has,
\* forces its x[10] to 0, links it as the last child of the caller, registers
\* it as Ready and returns its pid, a positive value: the child observes 0
\* and the caller the child's pid.
C4_Fork ==
    [][last'.op = "fork" =>
         \A a0 \in A0Args :
           sys_fork(a0) =>
             \E new \in Pids \ Live :
               /\ {p \in Pids : status'[p] # "Unused"} = Live \cup {new}
               /\ x10'[new] = 0
               /\ parent'[new] = current
               /\ children'[current] = Append(children[current], new)
               /\ \A p \in Pids \ {current} : children'[p] = children[p]
               /\ status'[new] = "Ready"
               /\ ready' = ready \cup {new}
               /\ \A p \in Pids \ {new} : status'[p] = status[p]
               /\ current' = current
               /\ last'.done /\ last'.task = current /\ last'.ret = new
               /\ new > 0
               /\ last'.ret # x10'[new]]_vars

\* a fork has returned: the new task is Ready, a child of the caller, with 0
\* in x[10], and the caller got its pid
C4_Witness ==
    /\ last.op = "fork" /\ last.done /\ last.ret > 0
    /\ status[last.ret] = "Ready" /\ last.ret \in ready
    /\ parent[last.ret] = last.task
    /\ x10[last.ret] = 0

\* C5: sys_exec never changes the set of tasks; for a name that is not found it
\* returns -1 and leaves the caller as it was; for a name that is found it
\* returns 0 and the caller keeps its pid, parent, children and priority.
C5_Exec ==
    [][last'.op = "exec" =>
         \A path \in Names :
           sys_exec(path) =>
             /\ status' = status /\ ready' = ready /\ current' = current
             /\ last'.done /\ last'.task = current
             /\ parent' = parent /\ children' = children /\ prio' = prio
             /\ path \notin Apps =>
                   /\ last'.ret = -1
                   /\ memory_set' = memory_set /\ umem' = umem
                   /\ x10' = x10 /\ exit_code' = exit_code
             /\ path \in Apps => last'.ret = 0]_vars

\* an exec succeeded in a task that has a parent, a child and a priority of
\* its own
C5_Witness ==
    /\ last.op = "exec" /\ last.done /\ last.ret = 0
    /\ parent[last.task] # NoPid
    /\ children[last.task] # <<>>
    /\ prio[last.task] # DefaultPrio

\* C6: sys_spawn returns -1 and creates no task when the image is not found;
\* when it is found it creates exactly one task with a fresh pid, the last
\* child of the caller, Ready, returns its pid and leaves the caller's address
\* space unchanged.
C6_Spawn ==
    [][last'.op = "spawn" =>
         \A path \in Names :
           sys_spawn(path) =>
             /\ last'.done /\ last'.task = current /\ current' = current
             /\ memory_set'[current] = memory_set[current]
             /\ umem'[current] = umem[current]
             /\ path \notin Apps =>
                   /\ last'.ret = -1
                   /\ status' = status /\ children' = children /\ ready' = ready
                   /\ parent' = parent /\ memory_set' = memory_set
             /\ path \in Apps =>
                   \E new \in Pids \ Live :
                     /\ {p \in Pids : status'[p] # "Unused"} = Live \cup {new}
                     /\ parent'[new] = current
                     /\ children'[current] = Append(children[current], new)
                     /\ \A p \in Pids \ {current} : children'[p] = children[p]
                     /\ status'[new] = "Ready"
                     /\ ready' = ready \cup {new}
                     /\ \A p \in Pids \ {new} : status'[p] = status[p]
                     /\ last'.ret = new]_vars

\* a spawn of an unknown name returned -1 to a caller that has a child and
\* could have been given another
C6_Witness ==
    /\ last.op = "spawn" /\ last.done /\ last.ret = -1
    /\ children[last.task] # <<>>
    /\ Pids \ Live # {}

\* the pages holding a byte of [start, start + len)
ReqPages(start, len) == {a \div PAGE_SIZE : a \in start..(start + len - 1)}
\* the pages of a region
RegionPages(a) == a.l..(a.r - 1)
\* the end of the request is an address
EndFits(start, len) == start + len < WordMod
\* the permission pattern is one over {R, W, X} and not empty
ValidPort(port) == port \in 1..(PortR + PortW + PortX)
\* the permissions the pattern asks for, user-accessible
AskedPerm(port) ==
    MapU + (IF port % 2 = 1 THEN MapR ELSE 0)
         + (IF (port \div 2) % 2 = 1 THEN MapW ELSE 0)
         + (IF (port \div 4) % 2 = 1 THEN MapX ELSE 0)
\* the range of the request is made up exactly of regions of ms lying in it
ExactlyMapped(ms, start, len) ==
    \E S \in SUBSET ms :
      /\ S # {}
      /\ \A a \in S : /\ start \div PAGE_SIZE <= a.l /\ a.l <= a.r
                       /\ a.r * PAGE_SIZE < start + len + PAGE_SIZE
      /\ UNION {RegionPages(a) : a \in S} = ReqPages(start, len)

\* C7: sys_mmap returns -1 and leaves the caller's regions unchanged when
\* start is not page-aligned, or port is 0, or port has a bit outside
\* {1, 2, 4}, for every len.
C7_MmapBadArgs ==
    [][last'.op = "mmap" =>
         \/ /\ last'.done /\ last'.ret = -1
            /\ memory_set' = memory_set
         \/ \A start \in StartArgs, len \in LenArgs, port \in PortArgs :
              (start % PAGE_SIZE # 0 \/ port = 0 \/ port \div 8 # 0) =>
                ~sys_mmap(start, len, port)]_vars

\* mmap left at the permission check, with an aligned start
C7_Witness ==
    /\ last.op = "mmap" /\ last.done /\ last.ret = -1
    /\ last.at = 187

\* C8: sys_mmap with an aligned start and a valid port returns -1 whenever the
\* page-rounded range shares a page with a region of the caller, and every
\* region is then mapped as before.
C8_MmapOverlap ==
    [][last'.op = "mmap" =>
         \/ /\ last'.done /\ last'.ret = -1
            /\ memory_set' = memory_set
         \/ \A start \in StartArgs, len \in LenArgs, port \in PortArgs :
              (/\ start % PAGE_SIZE = 0 /\ ValidPort(port) /\ EndFits(start, len)
               /\ \E a \in memory_set[current] :
                     RegionPages(a) \cap ReqPages(start, len) # {}) =>
                ~sys_mmap(start, len, port)]_vars

\* mmap left at the overlap check while the caller holds two regions, both
\* still mapped
C8_Witness ==
    /\ last.op = "mmap" /\ last.done /\ last.ret = -1
    /\ last.at = 197
    /\ Cardinality({a \in memory_set[last.task] : a.l < a.r}) = 2

\* C9: sys_mmap with an aligned start, a valid port and a range that meets no
\* region returns 0 and adds the pages from start to start + len, rounded up
\* to a page, as one region with the permissions User plus exactly the
\* requested ones; the other regions are unchanged.
C9_MmapInserts ==
    /\ [](\A port \in 1..(PortR + PortW + PortX) :
            MapPermission(PortFlag(port)) = AskedPerm(port))
    /\ [][last'.op = "mmap" =>
           \A start \in StartArgs, len \in LenArgs, port \in PortArgs :
             (/\ start % PAGE_SIZE = 0 /\ ValidPort(port) /\ EndFits(start, len)
              /\ \A a \in memory_set[current] :
                    RegionPages(a) \cap ReqPages(start, len) = {}
              /\ sys_mmap(start, len, port)) =>
               /\ last'.done /\ last'.ret = 0
               /\ memory_set' = [memory_set EXCEPT ![current] = @ \cup
                      {[l |-> start \div PAGE_SIZE,
                        r |-> start \div PAGE_SIZE + Cardinality(ReqPages(start, len)),
                        perm |-> AskedPerm(port)]}]]_vars

\* mmap returned 0 and a region of two pages with all of R, W, X and U is
\* mapped
C9_Witness ==
    /\ last.op = "mmap" /\ last.done /\ last.ret = 0
    /\ \E a \in memory_set[last.task] :
         a.r - a.l = 2 /\ a.perm = MapR + MapW + MapX + MapU

\* C10: sys_munmap returns -1 and unmaps nothing when start is not
\* page-aligned or when the page-rounded range is not made up exactly of
\* mapped regions; after a munmap that returned 0 the same munmap would
\* return -1.
C10_MunmapFails ==
    [][last'.op = "munmap" =>
         \A start \in StartArgs, len \in LenArgs :
           sys_munmap(start, len) =>
             /\ (start % PAGE_SIZE # 0
                  \/ (EndFits(start, len)
                      /\ ~ExactlyMapped(memory_set[current], start, len))) =>
                   /\ last'.done /\ last'.ret = -1
                   /\ memory_set' = memory_set
             /\ (last'.ret = 0 /\ EndFits(start, len)) =>
                   ~ExactlyMapped(memory_set'[current], start, len)]_vars

\* munmap of an aligned range failed while the caller has a region of which
\* the range would have taken only a part
C10_Witness ==
    /\ last.op = "munmap" /\ last.done /\ last.ret = -1
    /\ last.at = 214
    /\ \E a \in memory_set[last.task] : a.r - a.l = 2

\* C11: sys_set_priority(prio) returns -1 and leaves the caller's priority as
\* it was for every prio below 2; for every prio of 2 or more it stores prio
\* as the caller's priority and returns prio; no other task's priority
\* changes, and every task's priority is at least 2 in every state.
C11_SetPriority ==
    /\ [](\A t \in Live : prio[t] >= 2)
    /\ [][last'.op = "set_priority" =>
            \A p \in PrioArgs :
              sys_set_priority(p) =>
                /\ last'.done /\ last'.task = current
                /\ \A q \in Pids \ {current} : prio'[q] = prio[q]
                /\ p < 2 => (last'.ret = -1 /\ prio'[current] = prio[current])
                /\ p >= 2 => (last'.ret = p /\ prio'[current] = p)]_vars

\* a task that had given itself a priority asked for one below 2: it got -1
\* and kept the priority it had, while another task has the default one
C11_Witness ==
    /\ last.op = "set_priority" /\ last.done /\ last.ret = -1
    /\ prio[last.task] = MaxPrio
    /\ \E q \in Live \ {last.task} : prio[q] = DefaultPrio

\* the addresses of a structure of n words at ptr
Dest(ptr, n) == ptr..(ptr + n - 1)
\* the pages a structure of n words at ptr lies in
DestPages(ptr, n) == {a \div PAGE_SIZE : a \in Dest(ptr, n)}
\* every word of the structure lies in a page mapped in the address space of t
DestMapped(t, ptr, n) == \A a \in Dest(ptr, n) : PtrMapped(t, a)

\* C12: sys_get_time and sys_task_info return -1 and write no memory whenever
\* a part of the destination structure lies in a page that is not mapped in
\* the caller's address space, also when its first word is mapped; otherwise
\* they write the structure and return 0.
C12_UnmappedDestination ==
    [][/\ last'.op = "get_time" =>
            \A ts \in TsArgs, us \in UsArgs :
              \A pt \in PageTables(memory_set[current]) :
                sys_get_time(ts, us, pt) =>
                  IF DestMapped(current, ts, 2)
                  THEN /\ last'.done /\ last'.ret = 0
                       /\ umem'[current][ts] = us \div MICRO
                       /\ umem'[current][ts + 1] = us % MICRO
                  ELSE /\ last'.done /\ last'.ret = -1
                       /\ umem' = umem /\ stray' = 0
       /\ last'.op = "task_info" =>
            \A ti \in TsArgs, times \in CountArgs, time \in MsArgs :
              \A pt \in PageTables(memory_set[current]) :
                sys_task_info(ti, times, time, pt) =>
                  IF DestMapped(current, ti, 3)
                  THEN /\ last'.done /\ last'.ret = 0
                       /\ umem'[current][ti + 1] = times
                       /\ umem'[current][ti + 2] = time
                  ELSE /\ last'.done /\ last'.ret = -1
                       /\ umem' = umem /\ stray' = 0]_vars

\* C13: when the destination structure of sys_get_time or sys_task_info lies
\* in two virtual pages mapped to frames that do not follow each other, every
\* field is written at the location its own virtual address translates to,
\* and nothing outside the frames that back the structure is modified.
C13_StraddlingDestination ==
    [][/\ last'.op = "get_time" =>
            \A ts \in TsArgs, us \in UsArgs :
              \A pt \in PageTables(memory_set[current]) :
                (/\ sys_get_time(ts, us, pt)
                 /\ DestMapped(current, ts, 2)
                 /\ ts \div PAGE_SIZE # (ts + 1) \div PAGE_SIZE
                 /\ pt[(ts + 1) \div PAGE_SIZE] # pt[ts \div PAGE_SIZE] + 1) =>
                  /\ umem'[current][ts] = us \div MICRO
                  /\ umem'[current][ts + 1] = us % MICRO
                  /\ \A a \in Addrs :
                       a \div PAGE_SIZE \notin DestPages(ts, 2) =>
                         umem'[current][a] = umem[current][a]
                  /\ stray' = 0
       /\ last'.op = "task_info" =>
            \A ti \in TsArgs, times \in CountArgs, time \in MsArgs :
              \A pt \in PageTables(memory_set[current]) :
                (/\ sys_task_info(ti, times, time, pt)
                 /\ DestMapped(current, ti, 3)
                 /\ ti \div PAGE_SIZE # (ti + 2) \div PAGE_SIZE
                 /\ pt[(ti + 2) \div PAGE_SIZE] # pt[ti \div PAGE_SIZE] + 1) =>
                  /\ umem'[current][ti + 1] = times
                  /\ umem'[current][ti + 2] = time
                  /\ \A a \in Addrs :
                       a \div PAGE_SIZE \notin DestPages(ti, 3) =>
                         umem'[current][a] = umem[current][a]
                  /\ stray' = 0]_vars

\* C14: sys_waitpid called with an exit-code location that does not translate
\* in the caller's address space, while a matching child is a Zombie, returns
\* a negative value without a kernel panic, writes no memory and leaves the
\* caller's children list as it was.
C14_WaitpidBadPointer ==
    [][last'.op = "waitpid" =>
         \A pid \in PidArgs, ptr \in PtrArgs :
           (/\ sys_waitpid(pid, ptr)
            /\ ~PtrMapped(current, ptr)
            /\ \E c \in Selected(current, pid) : status[c] = "Zombie") =>
              /\ ~panicked'
              /\ last'.done /\ last'.ret < 0
              /\ umem' = umem
              /\ children' = children]_vars

C17_SoleReference ==
    [][last'.op = "waitpid" =>
         /\ last'.at # 118
         /\ \A pid \in PidArgs, ptr \in PtrArgs :
              sys_waitpid(pid, ptr) =>
                \A i \in 1..Len(children[current]) :
                  (\A j \in 1..Len(children'[current]) :
                      children'[current][j] # children[current][i]) =>
                    LET c == children[current][i]
                    IN  /\ c \notin ready /\ c # current
                        /\ \A p \in Pids \ {current} : c \notin ChildSet(p)
                        /\ \A j \in 1..Len(children[current]) :
                             children[current][j] = c => j = i]_vars

\* a waitpid took a Zombie out of a list of two children while the third task
\* was in the ready set
C17_Witness ==
    /\ last.op = "waitpid" /\ last.done /\ last.at = 122
    /\ Len(children[last.task]) = 1
    /\ ready # {}

\* the tasks that are Running
RunningTasks == {p \in Pids : status[p] = "Running"}

\* C18: at most one task is Running, and while a syscall can run the caller is
\* the one Running task; sys_yield leaves the caller Ready and in the ready
\* set unless it is dispatched again at once, sys_exit leaves it a Zombie, and
\* each hands the Running role to at most one task that was Ready.
C18_OneRunning ==
    /\ [](/\ Cardinality(RunningTasks) <= 1
          /\ current # NoPid => RunningTasks = {current}
          /\ current = NoPid => RunningTasks = {})
    /\ [][/\ last'.op = "yield" =>
               (sys_yield =>
                  \/ /\ current' = current /\ status'[current] = "Running"
                     /\ ready' = ready
                  \/ /\ status'[current] = "Ready" /\ ready' \cup {current'} = ready \cup {current}
                     /\ current' \in ready /\ status'[current'] = "Running")
          /\ last'.op = "exit" =>
               \A code \in ExitArgs :
                 sys_exit(code) =>
                   /\ status'[current] = "Zombie"
                   /\ \/ current' = NoPid /\ ready = {} /\ ready' = {}
                      \/ /\ current' \in ready /\ status'[current'] = "Running"
                         /\ ready' = ready \ {current'}
          /\ \A p \in Pids :
               (status[p] # "Running" /\ status'[p] = "Running") =>
                 (last'.op \in {"yield", "exit"} /\ status[p] = "Ready")]_vars

\* a yield handed the processor to another task: the caller is Ready and
\* waits with a third task
C18_Witness ==
    /\ last.op = "yield" /\ last.done
    /\ status[last.task] = "Ready" /\ last.task \in ready
    /\ current \notin {NoPid, last.task}
    /\ Cardinality(ready) = 2

\* C16: in every state reached by mmap, munmap, sbrk, fork, exec and spawn
\* calls (of tasks that yield to each other), the regions of each task's
\* address space are pairwise disjoint: no virtual page belongs to two
\* regions.
C16_RegionsDisjoint ==
    \A p \in Pids :
      \A a, b \in memory_set[p] :
        a # b => RegionPages(a) \cap RegionPages(b) = {}

\* a task holds three regions with pages, its image, its heap and a mapped
\* one, that fill its address space from page 1 on, while another task has a
\* region of its own
C16_Witness ==
    /\ \E p \in Pids :
         /\ Cardinality({a \in memory_set[p] : RegionPages(a) # {}}) = 3
         /\ UNION {RegionPages(a) : a \in memory_set[p]} = 1..3
         /\ heap[p].top > heap[p].bottom
         /\ \E q \in Pids \ {p} : memory_set[q] # {}
    /\ last.op = "mmap" /\ last.ret = -1 /\ last.at = 197

\* C19: no syscall holds exclusive access to the interior of any task when
\* control goes to the scheduler (sys_yield, sys_exit) or when the syscall
\* returns, on every path, the early -1 and -2 returns included; only a
\* kernel panic, which returns nowhere, leaves the access it struck in.
C19_NoAccessHeld ==
    /\ ~panicked => exclusive.held = {}
    /\ last.op \in {"yield", "exit"} => exclusive.held = {}
    /\ last.done => exclusive.held = {}

\* sys_mmap has taken the caller's interior, found the range occupied and
\* returned -1 from inside the scope of the access
C19_Witness ==
    /\ last.op = "mmap" /\ last.done /\ last.ret = -1 /\ last.at = 197
    /\ exclusive.held = {}
    /\ status[last.task] = "Running"

\* C20: no syscall acquires exclusive access to the interior of a task while
\* access to that task is held: the children sys_waitpid inspects with the
\* caller's interior held are other tasks (no task is in its own children
\* list), and sys_get_time and sys_task_info translate the user pointer
\* before they acquire the caller's interior.
C20_NoNestedAccess ==
    /\ ~exclusive.err
    /\ \A p \in Pids : p \notin Range(children[p])

\* sys_waitpid has looked, with the caller's interior held, at a child that
\* still runs, and has returned -2
C20_Witness ==
    /\ last.op = "waitpid" /\ last.done /\ last.ret = -2 /\ last.at = 124
    /\ children[last.task] # <<>>
    /\ \A c \in Range(children[last.task]) : status[c] # "Zombie"
    /\ ~exclusive.err

====
